---- MODULE Spec2Model ----
(***************************************************************************)
(* Model of the browser-side progress-notification client of the          *)
(* repository: the hook useProcessingSocket                               *)
(* (frontend/src/hooks/useProcessingSocket.ts) together with the socket   *)
(* helpers createProcessingSocket / parseMessage (lib/socket.ts), the     *)
(* reclassification flow of the project details page, and the progress    *)
(* channel the sockets connect to.                                        *)
(*                                                                         *)
(* The hook is a React function component hook.  Its handlers are         *)
(* closures: every socket created by connectSocket carries the value of   *)
(* the state variable isProcessing that the render which built that       *)
(* connectSocket saw.  Three copies of isProcessing are therefore kept:   *)
(*   isProcessing      the React state (last value passed to the setter)  *)
(*   rendIsProcessing  the value seen by the last committed render, i.e.  *)
(*                     by the startProcessing the button currently calls  *)
(*   refIsProcessing   the value captured by the connectSocket stored in  *)
(*                     connectSocketRef.current by the passive effect     *)
(* A state update made outside a discrete DOM event (socket, timer and    *)
(* HTTP callbacks) is rendered later (Render) and its passive effect runs *)
(* later still (Effect); a click is rendered and its effects are flushed  *)
(* synchronously at the end of the event.                                 *)
(* The state variables hold the last value passed to their setter, also   *)
(* after the component was unmounted (React then discards the update, and *)
(* nothing can observe it any more).                                      *)
(***************************************************************************)
EXTENDS Integers, Sequences, FiniteSets, TLC

\* ------------------------------------------------------------------ bounds
MaxSockets == 4
MaxStarts == 3

\* ------------------------------------------------------- program constants
maxRetries == 3

Progresses == {10, 60, 100}

\* ---------------------------------------------------------------- wire data
\* A text frame on the socket: either text that is not JSON, or the JSON
\* encoding of a ProcessingMessage.
NonJson == [wire |-> "text", status |-> "", progress |-> 0, message |-> ""]

Frames ==
  {NonJson}
  \cup [wire : {"json"}, status : {"processing"}, progress : {10, 60},
        message : {"Working"}]
  \cup [wire : {"json"}, status : {"completed"}, progress : {100},
        message : {"Done"}]
  \cup [wire : {"json"}, status : {"error"}, progress : {60},
        message : {"Oops", "Timeout"}]

NoFrame == [wire |-> "none", status |-> "", progress |-> 0, message |-> ""]

Null == [status |-> "null", progress |-> 0, message |-> ""]

\* A parse failure reported as an error event instead of null.
parseMessage_FailureAsError(frame) ==
  IF frame.wire = "json"
    THEN [status |-> frame.status, progress |-> frame.progress,
          message |-> frame.message]
    ELSE [status |-> "error", progress |-> 0, message |-> "parse"]

parseMessage(frame) ==
  IF frame.wire = "json"
    THEN [status |-> frame.status, progress |-> frame.progress,
          message |-> frame.message]
    ELSE Null

\* -------------------------------------------------------------- observables
\* What a handler emits: toasts, navigation, the HTTP trigger, socket.close(),
\* console.error, setTimeout.
Emit(o, kind, text, n) == [o |-> o, kind |-> kind, text |-> text, n |-> n]

Count(seq, o, kind) ==
  Cardinality({i \in DOMAIN seq : seq[i].o = o /\ seq[i].kind = kind})

Emitted(seq, o) == \E i \in DOMAIN seq : seq[i].o = o

VARIABLES
  isProcessing,      \* useState(false)
  progress,          \* useState(0)
  rendIsProcessing,  \* isProcessing as closed over by the committed render
  refIsProcessing,   \* isProcessing closed over by connectSocketRef.current
  socketRef,         \* socketRef.current: index into sockets, 0 for null
  retryCount,        \* retryCountRef.current
  sockets,           \* every WebSocket the hook has created, in order
  timers,            \* number of pending setTimeout reconnections
  mutation,          \* the processProject mutation: "idle" or "pending"
  out,               \* what the last handler emitted
  act,               \* the handler that ran last
  terminal,          \* how the current attempt ended, "none" while running
  consec,            \* unexpected closes since the last open / start
  scenario,          \* progress through the happy-path scenario
  mounted,           \* the component using the hook is mounted
  starts,            \* number of effective startProcessing calls so far
  startSock,         \* the socket created by the last startProcessing
  triggers           \* HTTP triggers issued since the last startProcessing

vars == <<isProcessing, progress, rendIsProcessing, refIsProcessing, socketRef,
          retryCount, sockets, timers, mutation, out, act, terminal, consec,
          scenario, mounted, starts, startSock, triggers>>

\* The details page and its review modal.
VARIABLES
  isReviewModalOpen, \* Header: useState(false)
  feedback,          \* ReviewFeedbackModal: useState("")
  reclassify,        \* reclassifyMutation: "idle" or "pending"
  isReclassifying,   \* details page: useState(false)
  reclassifyStatus,  \* details page: useState(null)
  pageSockets,       \* every WebSocket the page has created, in order
  pageSocketRef,     \* the page's socketRef.current, 0 for null
  pageOut,           \* what the last handler of the page emitted
  pageAct,           \* the handler of the page that ran last
  pageMounted,       \* the details page is mounted
  submits            \* number of reclassify requests sent so far

pageVars == <<isReviewModalOpen, feedback, reclassify, isReclassifying,
              reclassifyStatus, pageSockets, pageSocketRef, pageOut, pageAct,
              pageMounted, submits>>

\* The merged-document viewer of the details page and the data it shows.
VARIABLES
  pdfVersion,        \* the merged PDF the server holds, regenerated by each job
  mergedPdfFetching, \* a merged-PDF info request is in flight
  pdfUrl,            \* the viewer's pdfUrl prop: preview_url of the query data
  effectUrl,         \* the pdfUrl the viewer's fetch effect last ran with
  effectCleanup,     \* that run of the effect returned its cleanup function
  blobUrlRef,        \* blobUrlRef.current: the version it holds, 0 for null
  blobUrl,           \* useState(null): the version displayed, 0 for null
  pdfFetches,        \* fetches of the PDF bytes in flight
  fetchError         \* useState(null): an error is displayed

viewerVars == <<pdfVersion, mergedPdfFetching, pdfUrl, effectUrl,
                effectCleanup, blobUrlRef, blobUrl, pdfFetches, fetchError>>

\* The progress channel.
VARIABLES
  chanEnv,           \* import.meta.env.VITE_API_BASE_URL of the build
  chanSessions,      \* every connection made to the channel endpoint, in order
  registry,          \* the server's registry: project id -> registered sessions
  published,         \* number of events published so far
  chanAct            \* the channel operation that ran last

chanVars == <<chanEnv, chanSessions, registry, published, chanAct>>

\* What a step of one part of the model leaves alone.
pageAndChannel == <<pageVars, viewerVars, chanVars>>
hookAndChannel == <<vars, chanVars>>
hookAndPage == <<vars, pageVars, viewerVars>>

\* The part of the state the handlers read and write, as one record.
Cur ==
  [isProcessing |-> isProcessing, progress |-> progress,
   socketRef |-> socketRef, retryCount |-> retryCount, sockets |-> sockets,
   timers |-> timers, mutation |-> mutation, out |-> <<>>]

Apply(c) ==
  /\ isProcessing' = c.isProcessing
  /\ progress' = c.progress
  /\ socketRef' = c.socketRef
  /\ retryCount' = c.retryCount
  /\ sockets' = c.sockets
  /\ timers' = c.timers
  /\ mutation' = c.mutation
  /\ out' = c.out

Say(c, e) == [c EXCEPT !.out = Append(@, e)]

\* ------------------------------------------------------------------ sockets
\* WebSocket.close(): CONNECTING/OPEN become CLOSING, otherwise nothing.
close(socks, s) ==
  IF socks[s].state \in {"connecting", "open"}
    THEN [socks EXCEPT ![s].state = "closing"]
    ELSE socks

Live(socks) == {s \in DOMAIN socks : socks[s].state \in {"connecting", "open"}}

\* createProcessingSocket + the handler installation of connectSocket: the
\* handlers close over cap, the isProcessing of the render that built them.
NewSocket(cap) ==
  [state |-> "connecting", cap |-> cap, opened |-> FALSE, triggered |-> FALSE]

\* A closed socket fires no further event, so nothing of it is kept.
Closed ==
  [state |-> "closed", cap |-> FALSE, opened |-> FALSE, triggered |-> FALSE]

\* ----------------------------------------------------------------- handlers
\* cleanup that closes the socket but keeps the handle and the retry counter.
cleanup_KeepsHandle(c) ==
  LET c1 == IF c.socketRef # 0
              THEN [Say(c, Emit("close", "", "", c.socketRef))
                      EXCEPT !.sockets = close(c.sockets, c.socketRef)]
              ELSE c
  IN [c1 EXCEPT !.isProcessing = FALSE, !.progress = 0]

\* cleanup that resets the state but does not discard the handle.
cleanup_HandleKept(c) ==
  LET c1 == IF c.socketRef # 0
              THEN [Say(c, Emit("close", "", "", c.socketRef))
                      EXCEPT !.sockets = close(c.sockets, c.socketRef)]
              ELSE c
  IN [c1 EXCEPT !.isProcessing = FALSE, !.progress = 0, !.retryCount = 0]

cleanup(c) ==
  LET c1 == IF c.socketRef # 0
              THEN [Say(c, Emit("close", "", "", c.socketRef))
                      EXCEPT !.sockets = close(c.sockets, c.socketRef),
                             !.socketRef = 0]
              ELSE c
  IN [c1 EXCEPT !.isProcessing = FALSE, !.progress = 0, !.retryCount = 0]

\* handleMessage that stores the event's progress after the switch.
handleMessage_ProgressLast(c, frame) ==
  LET message == parseMessage(frame) IN
  IF message = Null THEN Say(c, Emit("log", "error", "parse", 0))
  ELSE
    LET c2 ==
      CASE message.status = "processing" ->
             Say(c, Emit("toast", "loading", message.message, message.progress))
        [] message.status = "completed" ->
             Say(cleanup(Say(c, Emit("toast", "success", message.message, 0))),
                 Emit("navigate", "details", "", 0))
        [] message.status = "error" ->
             cleanup(Say(c, Emit("toast", "error", message.message, 0)))
        [] OTHER -> c
    IN [c2 EXCEPT !.progress = message.progress]

\* handleMessage that starts interpreting events only once the trigger has
\* been answered.
handleMessage_AfterAccept(c, frame) ==
  LET message == parseMessage(frame) IN
  IF message = Null THEN Say(c, Emit("log", "error", "parse", 0))
  ELSE IF c.mutation = "pending" THEN c
  ELSE
    LET c1 == [c EXCEPT !.progress = message.progress] IN
    CASE message.status = "processing" ->
           Say(c1, Emit("toast", "loading", message.message, message.progress))
      [] message.status = "completed" ->
           Say(cleanup(Say(c1, Emit("toast", "success", message.message, 0))),
               Emit("navigate", "details", "", 0))
      [] message.status = "error" ->
           cleanup(Say(c1, Emit("toast", "error", message.message, 0)))
      [] OTHER -> c1

\* handleMessage that takes a processing event as a sign of life and resets
\* the retry counter.
handleMessage_ProcessingResetsRetry(c, frame) ==
  LET message == parseMessage(frame) IN
  IF message = Null THEN Say(c, Emit("log", "error", "parse", 0))
  ELSE
    LET c1 == [c EXCEPT !.progress = message.progress] IN
    CASE message.status = "processing" ->
           Say([c1 EXCEPT !.retryCount = 0],
               Emit("toast", "loading", message.message, message.progress))
      [] message.status = "completed" ->
           Say(cleanup(Say(c1, Emit("toast", "success", message.message, 0))),
               Emit("navigate", "details", "", 0))
      [] message.status = "error" ->
           cleanup(Say(c1, Emit("toast", "error", message.message, 0)))
      [] OTHER -> c1

handleMessage(c, frame) ==
  LET message == parseMessage(frame) IN
  IF message = Null THEN Say(c, Emit("log", "error", "parse", 0))
  ELSE
    LET c1 == [c EXCEPT !.progress = message.progress] IN
    CASE message.status = "processing" ->
           Say(c1, Emit("toast", "loading", message.message, message.progress))
      [] message.status = "completed" ->
           Say(cleanup(Say(c1, Emit("toast", "success", message.message, 0))),
               Emit("navigate", "details", "", 0))
      [] message.status = "error" ->
           cleanup(Say(c1, Emit("toast", "error", message.message, 0)))
      [] OTHER -> c1

connectSocket(c, cap) ==
  [c EXCEPT !.sockets = Append(@, NewSocket(cap)),
            !.socketRef = Len(c.sockets) + 1]

\* onopen that leaves the retry counter alone.
onopen_KeepsRetryCount(c, s) ==
  LET c1 == [c EXCEPT !.sockets[s].state = "open",
                      !.sockets[s].opened = TRUE]
      c2 == Say(c1, Emit("toast", "info", "Connected to processing server", 0))
  IN [Say(c2, Emit("trigger", "process-project", "", s))
        EXCEPT !.mutation = "pending", !.sockets[s].triggered = TRUE]

onopen(c, s) ==
  LET c1 == [c EXCEPT !.retryCount = 0,
                      !.sockets[s].state = "open",
                      !.sockets[s].opened = TRUE]
      c2 == Say(c1, Emit("toast", "info", "Connected to processing server", 0))
  IN [Say(c2, Emit("trigger", "process-project", "", s))
        EXCEPT !.mutation = "pending", !.sockets[s].triggered = TRUE]

onSuccess(c) ==
  Say([c EXCEPT !.mutation = "idle"],
      Emit("toast", "loading", "Processing started...", 0))

onError(c) ==
  cleanup(Say([c EXCEPT !.mutation = "idle"],
              Emit("toast", "error", "Failed to start processing", 0)))

onerror(c, s) == Say(c, Emit("log", "error", "WebSocket error", 0))

\* onclose that shows the retrying notification before counting the retry.
onclose_ReportsBeforeIncrement(c, s) ==
  LET c0 == [c EXCEPT !.sockets[s] = Closed] IN
  IF c.sockets[s].cap /\ c0.retryCount < maxRetries
    THEN LET c1 == [c0 EXCEPT !.retryCount = @ + 1] IN
         [Say(Say(c1, Emit("toast", "warning", "Connection lost. Retrying...",
                           c0.retryCount)),
              Emit("setTimeout", "reconnect", "", 2000))
            EXCEPT !.timers = @ + 1]
  ELSE IF c0.retryCount >= maxRetries
    THEN cleanup(Say(c0, Emit("toast", "error",
                              "Connection failed after multiple attempts", 0)))
  ELSE c0

onclose(c, s) ==
  LET c0 == [c EXCEPT !.sockets[s] = Closed] IN
  IF c.sockets[s].cap /\ c0.retryCount < maxRetries
    THEN LET c1 == [c0 EXCEPT !.retryCount = @ + 1] IN
         [Say(Say(c1, Emit("toast", "warning", "Connection lost. Retrying...",
                           c1.retryCount)),
              Emit("setTimeout", "reconnect", "", 2000))
            EXCEPT !.timers = @ + 1]
  ELSE IF c0.retryCount >= maxRetries
    THEN cleanup(Say(c0, Emit("toast", "error",
                              "Connection failed after multiple attempts", 0)))
  ELSE c0

\* startProcessing that fires the HTTP trigger itself, before the socket opens.
startProcessing_TriggerFirst(c, cap) ==
  LET c1 == connectSocket([c EXCEPT !.isProcessing = TRUE, !.progress = 0,
                                    !.retryCount = 0], cap)
  IN [Say(c1, Emit("trigger", "process-project", "", c1.socketRef))
        EXCEPT !.mutation = "pending",
               !.sockets[c1.socketRef].triggered = TRUE]

startProcessing(c, cap) ==
  connectSocket([c EXCEPT !.isProcessing = TRUE, !.progress = 0,
                          !.retryCount = 0], cap)

\* startProcessing that does not look at isProcessing.
startProcessingClick_NoGuard(c, busy, cap) == startProcessing(c, cap)

\* startProcessing as called: the body above behind its early return, busy
\* being the isProcessing the callback closed over.
startProcessingClick(c, busy, cap) ==
  IF busy THEN c ELSE startProcessing(c, cap)

\* ------------------------------------------------------------------ actions
Did(h, s, f) == act' = [h |-> h, s |-> s, f |-> f]

Init ==
  /\ isProcessing = FALSE
  /\ progress = 0
  /\ rendIsProcessing = FALSE
  /\ refIsProcessing = FALSE
  /\ socketRef = 0
  /\ retryCount = 0
  /\ sockets = <<>>
  /\ timers = 0
  /\ mutation = "idle"
  /\ out = <<>>
  /\ act = [h |-> "mount", s |-> 0, f |-> NoFrame]
  /\ terminal = "none"
  /\ consec = 0
  /\ scenario = "idle"
  /\ mounted = TRUE
  /\ starts = 0
  /\ startSock = 0
  /\ triggers = 0

\* The user clicks the button: the startProcessing of the committed render
\* runs (its isProcessing is rendIsProcessing), with the connectSocket that
\* the ref holds at that moment.  The click is a discrete event, so the
\* re-render and its passive effect are flushed before the next event.
StartProcessing ==
  /\ mounted
  /\ ~rendIsProcessing
  /\ starts < MaxStarts
  /\ starts' = starts + 1
  /\ startSock' = Len(sockets) + 1
  /\ Len(sockets) < MaxSockets
  /\ Apply(startProcessingClick(Cur, rendIsProcessing, refIsProcessing))
  /\ triggers' = Count(out', "trigger", "process-project")
  /\ rendIsProcessing' = TRUE
  /\ refIsProcessing' = TRUE
  /\ Did("startProcessing", Len(sockets) + 1, NoFrame)
  /\ terminal' = "none"
  /\ consec' = 0
  /\ scenario' = "started"
  /\ UNCHANGED mounted
  /\ UNCHANGED pageAndChannel

\* startProcessing is called while the committed render has isProcessing true
\* (the button is disabled then; the function can still be called).
StartProcessingBusy ==
  /\ mounted
  /\ rendIsProcessing
  /\ Apply(startProcessingClick(Cur, rendIsProcessing, refIsProcessing))
  /\ Did("startProcessingBusy", 0, NoFrame)
  /\ scenario' = "off"
  /\ UNCHANGED <<mounted, starts, startSock, rendIsProcessing,
                 refIsProcessing, terminal, consec, triggers>>
  /\ UNCHANGED pageAndChannel

\* React commits a render for a state update made by a socket, timer or HTTP
\* callback; the passive effect of the previous render, if still pending, is
\* flushed first.
Render ==
  /\ mounted
  /\ rendIsProcessing # isProcessing
  /\ refIsProcessing' = rendIsProcessing
  /\ rendIsProcessing' = isProcessing
  /\ Did("render", 0, NoFrame)
  /\ out' = <<>>
  /\ UNCHANGED <<isProcessing, progress, socketRef, retryCount, sockets,
                 timers, mutation, terminal, consec, scenario, mounted, starts,
                 startSock>>
  /\ UNCHANGED triggers
  /\ UNCHANGED pageAndChannel

\* The passive effect of the committed render stores its connectSocket.
Effect ==
  /\ mounted
  /\ refIsProcessing # rendIsProcessing
  /\ refIsProcessing' = rendIsProcessing
  /\ Did("effect", 0, NoFrame)
  /\ out' = <<>>
  /\ UNCHANGED <<isProcessing, progress, rendIsProcessing, socketRef,
                 retryCount, sockets, timers, mutation, terminal, consec,
                 scenario, mounted, starts, startSock>>
  /\ UNCHANGED triggers
  /\ UNCHANGED pageAndChannel

OnOpen(s) ==
  /\ sockets[s].state = "connecting"
  /\ Apply(onopen(Cur, s))
  /\ triggers' = triggers + Count(out', "trigger", "process-project")
  /\ Did("onopen", s, NoFrame)
  /\ consec' = 0
  /\ scenario' = IF scenario = "started" THEN "opened" ELSE "off"
  /\ UNCHANGED <<mounted, starts, startSock, rendIsProcessing,
                 refIsProcessing, terminal>>
  /\ UNCHANGED pageAndChannel

TriggerSuccess ==
  /\ mounted
  /\ mutation = "pending"
  /\ Apply(onSuccess(Cur))
  /\ Did("onSuccess", 0, NoFrame)
  /\ scenario' = IF scenario = "opened" THEN "accepted" ELSE "off"
  /\ UNCHANGED <<mounted, starts, startSock, rendIsProcessing,
                 refIsProcessing, terminal, consec>>
  /\ UNCHANGED triggers
  /\ UNCHANGED pageAndChannel

TriggerError ==
  /\ mounted
  /\ mutation = "pending"
  /\ Apply(onError(Cur))
  /\ Did("onError", 0, NoFrame)
  /\ terminal' = "triggerFailed"
  /\ scenario' = "off"
  /\ UNCHANGED <<mounted, starts, startSock, rendIsProcessing,
                 refIsProcessing, consec>>
  /\ UNCHANGED triggers
  /\ UNCHANGED pageAndChannel

\* The HTTP response arrives after the component was unmounted: the mutation
\* observer has no listener left, so neither onSuccess nor onError is called.
TriggerDropped ==
  /\ ~mounted
  /\ mutation = "pending"
  /\ mutation' = "idle"
  /\ Did("dropped", 0, NoFrame)
  /\ out' = <<>>
  /\ scenario' = "off"
  /\ UNCHANGED <<isProcessing, progress, rendIsProcessing, refIsProcessing,
                 socketRef, retryCount, sockets, timers, terminal, consec,
                 mounted, starts, startSock>>
  /\ UNCHANGED triggers
  /\ UNCHANGED pageAndChannel

\* The user leaves the page: the component is unmounted.  The hook registers
\* no unmount effect, so nothing else changes.
Unmount ==
  /\ mounted
  /\ mounted' = FALSE
  /\ Did("unmount", 0, NoFrame)
  /\ out' = <<>>
  /\ scenario' = "off"
  /\ UNCHANGED <<isProcessing, progress, rendIsProcessing, refIsProcessing,
                 socketRef, retryCount, sockets, timers, mutation, terminal,
                 consec, starts, startSock>>
  /\ UNCHANGED triggers
  /\ UNCHANGED pageAndChannel

ScenarioNext(f) ==
  CASE scenario = "accepted" /\ f.status = "processing" /\ f.progress = 10
         -> "p10"
    [] scenario = "p10" /\ f.status = "processing" /\ f.progress = 60
         -> "p60"
    [] scenario = "p60" /\ f.status = "completed" /\ f.progress = 100
         -> "done"
    [] OTHER -> "off"

OnMessage(s, f) ==
  /\ sockets[s].state = "open"
  /\ Apply(handleMessage(Cur, f))
  /\ Did("onmessage", s, f)
  /\ terminal' = IF f.status \in {"completed", "error"} THEN f.status
                 ELSE terminal
  /\ scenario' = ScenarioNext(f)
  /\ mounted' = (mounted /\ ~Emitted(out', "navigate"))
  /\ UNCHANGED <<starts, startSock, rendIsProcessing, refIsProcessing, consec>>
  /\ UNCHANGED triggers
  /\ UNCHANGED pageAndChannel

\* The error event of a failing connection; the close event follows it.
OnSocketError(s) ==
  /\ sockets[s].state \in {"connecting", "open"}
  /\ Apply(onerror(Cur, s))
  /\ Did("onerror", s, NoFrame)
  /\ scenario' = "off"
  /\ UNCHANGED <<mounted, starts, startSock, rendIsProcessing,
                 refIsProcessing, terminal, consec>>
  /\ UNCHANGED triggers
  /\ UNCHANGED pageAndChannel

OnClose(s) ==
  /\ sockets[s].state \in {"connecting", "open", "closing"}
  /\ Apply(onclose(Cur, s))
  /\ Did("onclose", s, NoFrame)
  /\ terminal' = IF ~(sockets[s].cap /\ retryCount < maxRetries)
                    /\ retryCount >= maxRetries
                   THEN "exhausted" ELSE terminal
  /\ consec' = IF sockets[s].state = "closing" THEN consec ELSE consec + 1
  /\ scenario' = "off"
  /\ UNCHANGED <<mounted, starts, startSock, rendIsProcessing, refIsProcessing>>
  /\ UNCHANGED triggers
  /\ UNCHANGED pageAndChannel

\* The 2000 ms timer fires and calls connectSocketRef.current().
TimerFire ==
  /\ timers > 0
  /\ Len(sockets) < MaxSockets
  /\ Apply(connectSocket([Cur EXCEPT !.timers = @ - 1], refIsProcessing))
  /\ Did("timer", Len(sockets) + 1, NoFrame)
  /\ scenario' = "off"
  /\ UNCHANGED <<mounted, starts, startSock, rendIsProcessing,
                 refIsProcessing, terminal, consec>>
  /\ UNCHANGED triggers
  /\ UNCHANGED pageAndChannel

Next ==
  \/ StartProcessing
  \/ StartProcessingBusy
  \/ Render
  \/ Effect
  \/ \E s \in DOMAIN sockets : OnOpen(s)
  \/ TriggerSuccess
  \/ TriggerError
  \/ TriggerDropped
  \/ Unmount
  \/ \E s \in DOMAIN sockets : \E f \in Frames : OnMessage(s, f)
  \/ \E s \in DOMAIN sockets : OnSocketError(s)
  \/ \E s \in DOMAIN sockets : OnClose(s)
  \/ TimerFire

TypeOK ==
  /\ isProcessing \in BOOLEAN
  /\ progress \in Progresses \cup {0}
  /\ socketRef \in 0..Len(sockets)
  /\ retryCount \in 0..maxRetries
  /\ timers \in 0..MaxSockets
  /\ mutation \in {"idle", "pending"}

\* ============================================================ details page
\* The project details page (routes/app/$projectId/details.tsx) with the
\* header's review modal (ReviewFeedbackModal.tsx): the user types feedback,
\* submits it, the reclassify request is awaited, and only then the page opens
\* a progress socket and shows a blocking overlay until a terminal event.

\* ------------------------------------------------------------------ bounds
MaxSubmits == 2

\* The textarea's text, as a sequence of characters.
Feedbacks == {<<>>, <<" ">>, <<"m">>, <<" ", "m", "\n">>}

IsSpace(ch) == ch \in {" ", "\t", "\n"}

RECURSIVE trimStart(_)
trimStart(t) ==
  IF t # <<>> /\ IsSpace(Head(t)) THEN trimStart(Tail(t)) ELSE t

RECURSIVE trimEnd(_)
trimEnd(t) ==
  IF t # <<>> /\ IsSpace(t[Len(t)])
    THEN trimEnd(SubSeq(t, 1, Len(t) - 1))
    ELSE t

\* String.prototype.trim
trim(t) == trimEnd(trimStart(t))

NoStatus == "null"

PageCur ==
  [isReviewModalOpen |-> isReviewModalOpen, feedback |-> feedback,
   reclassify |-> reclassify, isReclassifying |-> isReclassifying,
   reclassifyStatus |-> reclassifyStatus, sockets |-> pageSockets,
   socketRef |-> pageSocketRef, out |-> <<>>]

PageApply(d) ==
  /\ isReviewModalOpen' = d.isReviewModalOpen
  /\ feedback' = d.feedback
  /\ reclassify' = d.reclassify
  /\ isReclassifying' = d.isReclassifying
  /\ reclassifyStatus' = d.reclassifyStatus
  /\ pageSockets' = d.sockets
  /\ pageSocketRef' = d.socketRef
  /\ pageOut' = d.out

PageSocket == [state |-> "connecting"]

\* ----------------------------------------------------------------- handlers
handleReclassifyStart(d) ==
  [d EXCEPT !.isReclassifying = TRUE,
            !.reclassifyStatus = "Connecting...",
            !.sockets = Append(@, PageSocket),
            !.socketRef = Len(d.sockets) + 1]

\* handleSubmit up to the await: the validation and the request.
handleSubmit(d) ==
  IF trim(d.feedback) = <<>>
    THEN Say(d, Emit("toast", "error", "Please enter feedback", 0))
    ELSE [Say(d, Emit("trigger", "reclassify", "", Len(trim(d.feedback))))
            EXCEPT !.reclassify = "pending"]

\* handleSubmit after the await, the request having succeeded.
handleSubmitResolved(d) ==
  LET d1 == handleReclassifyStart([d EXCEPT !.reclassify = "idle"]) IN
  Say([d1 EXCEPT !.feedback = <<>>, !.isReviewModalOpen = FALSE],
      Emit("toast", "info", "Reclassification started...", 0))

\* A catch block that also dismisses the modal and clears the text.
handleSubmitRejected_Dismisses(d) ==
  Say([d EXCEPT !.reclassify = "idle", !.feedback = <<>>,
                !.isReviewModalOpen = FALSE],
      Emit("toast", "error", "Failed to submit feedback", 0))

\* handleSubmit's catch block, the request having failed.
handleSubmitRejected(d) ==
  Say([d EXCEPT !.reclassify = "idle"],
      Emit("toast", "error", "Failed to submit feedback", 0))

reclassifyOnOpen(d, s) ==
  [d EXCEPT !.sockets[s].state = "open",
            !.reclassifyStatus = "Processing your feedback..."]

\* An onmessage that ends the reclassification without refetching anything.
reclassifyOnMessage_NoRefetch(d, s, frame) ==
  LET message == parseMessage(frame) IN
  IF message = Null THEN Say(d, Emit("log", "error", "parse", 0))
  ELSE
    LET d1 == [d EXCEPT !.reclassifyStatus = message.message] IN
    IF message.status = "completed"
      THEN LET d3 == Say([d1 EXCEPT !.isReclassifying = FALSE,
                                    !.reclassifyStatus = NoStatus],
                         Emit("toast", "success", "Classifications updated!", 0))
           IN [Say(d3, Emit("close", "", "", s))
                 EXCEPT !.sockets = close(d3.sockets, s)]
    ELSE IF message.status = "error"
      THEN LET d2 == Say([d1 EXCEPT !.isReclassifying = FALSE,
                                    !.reclassifyStatus = NoStatus],
                         Emit("toast", "error", message.message, 0))
           IN [Say(d2, Emit("close", "", "", s))
                 EXCEPT !.sockets = close(d2.sockets, s)]
    ELSE d1

reclassifyOnMessage(d, s, frame) ==
  LET message == parseMessage(frame) IN
  IF message = Null THEN Say(d, Emit("log", "error", "parse", 0))
  ELSE
    LET d1 == [d EXCEPT !.reclassifyStatus = message.message] IN
    IF message.status = "completed"
      THEN LET d2 == Say(Say(d1, Emit("refetch", "grouped", "", 0)),
                         Emit("refetch", "mergedPdf", "", 0))
               d3 == Say([d2 EXCEPT !.isReclassifying = FALSE,
                                    !.reclassifyStatus = NoStatus],
                         Emit("toast", "success", "Classifications updated!", 0))
           IN [Say(d3, Emit("close", "", "", s))
                 EXCEPT !.sockets = close(d3.sockets, s)]
    ELSE IF message.status = "error"
      THEN LET d2 == Say([d1 EXCEPT !.isReclassifying = FALSE,
                                    !.reclassifyStatus = NoStatus],
                         Emit("toast", "error", message.message, 0))
           IN [Say(d2, Emit("close", "", "", s))
                 EXCEPT !.sockets = close(d2.sockets, s)]
    ELSE d1

reclassifyOnError(d, s) ==
  Say(d, Emit("log", "error", "WebSocket error during reclassification", 0))

reclassifyOnClose(d, s) ==
  [d EXCEPT !.sockets[s].state = "closed", !.socketRef = 0]

\* The cleanup function of the page's unmount effect.
pageUnmount(d) ==
  IF d.socketRef # 0
    THEN [Say(d, Emit("close", "", "", d.socketRef))
            EXCEPT !.sockets = close(d.sockets, d.socketRef)]
    ELSE d

\* --------------------------------------------------- merged-document viewer
\* MergedDocumentViewer.tsx: an effect keyed on pdfUrl fetches the PDF bytes
\* into a blob URL, which is what the viewer displays.  A reclassification
\* job regenerates the merged PDF (regenerate_pdf: true); its completed event
\* makes the page refetch the merged-PDF info.

NoUrl == "null"

\* The preview_url values the merged-PDF info can carry.
PreviewUrls == {"/preview", "/preview?v=2"}

ViewerInit ==
  /\ pdfVersion = 1
  /\ mergedPdfFetching = TRUE
  /\ pdfUrl = NoUrl
  /\ effectUrl = NoUrl
  /\ effectCleanup = FALSE
  /\ blobUrlRef = 0
  /\ blobUrl = 0
  /\ pdfFetches = 0
  /\ fetchError = FALSE

\* The cleanup function of the fetch effect, if the last run returned one.
viewerCleanup(ref, has) == IF has THEN 0 ELSE ref

\* The fetch effect starts a fetch: pdfUrl is set and no blob URL is held.
viewerFetches(url, ref) == url # NoUrl /\ ref = 0

\* ------------------------------------------------------------------ actions
PageDid(h, s, f) == pageAct' = [h |-> h, s |-> s, f |-> f]

PageInit ==
  /\ isReviewModalOpen = FALSE
  /\ feedback = <<>>
  /\ reclassify = "idle"
  /\ isReclassifying = FALSE
  /\ reclassifyStatus = NoStatus
  /\ pageSockets = <<>>
  /\ pageSocketRef = 0
  /\ pageOut = <<>>
  /\ pageAct = [h |-> "mount", s |-> 0, f |-> NoFrame]
  /\ pageMounted = TRUE
  /\ submits = 0

\* The controls of the page can be reached while the page is mounted and the
\* full-screen overlay is not covering them.
Reachable == pageMounted /\ ~isReclassifying

\* The header's "Review Classifications" button.
OpenReviewModal ==
  /\ Reachable
  /\ ~isReviewModalOpen
  /\ PageApply([PageCur EXCEPT !.isReviewModalOpen = TRUE])
  /\ PageDid("open", 0, NoFrame)
  /\ UNCHANGED <<pageMounted, submits>>
  /\ UNCHANGED hookAndChannel
  /\ UNCHANGED viewerVars

\* The modal's backdrop and X button (the Cancel button is disabled while the
\* request is pending, these two are not).
CloseReviewModal ==
  /\ Reachable
  /\ isReviewModalOpen
  /\ PageApply([PageCur EXCEPT !.isReviewModalOpen = FALSE])
  /\ PageDid("close", 0, NoFrame)
  /\ UNCHANGED <<pageMounted, submits>>
  /\ UNCHANGED hookAndChannel
  /\ UNCHANGED viewerVars

\* The textarea's onChange.
TypeFeedback(t) ==
  /\ Reachable
  /\ isReviewModalOpen
  /\ t # feedback
  /\ PageApply([PageCur EXCEPT !.feedback = t])
  /\ PageDid("type", 0, NoFrame)
  /\ UNCHANGED <<pageMounted, submits>>
  /\ UNCHANGED hookAndChannel
  /\ UNCHANGED viewerVars

\* The "Submit Feedback" button, enabled when the trimmed feedback is not
\* empty and no request is pending.
Submit ==
  /\ Reachable
  /\ isReviewModalOpen
  /\ trim(feedback) # <<>>
  /\ reclassify # "pending"
  /\ submits < MaxSubmits
  /\ submits' = submits + 1
  /\ PageApply(handleSubmit(PageCur))
  /\ PageDid("submit", 0, NoFrame)
  /\ UNCHANGED pageMounted
  /\ UNCHANGED hookAndChannel
  /\ UNCHANGED viewerVars

\* The reclassify request is answered with 200: the awaited promise resolves,
\* whether or not the page is still mounted.
SubmitResolved ==
  /\ reclassify = "pending"
  /\ PageApply(handleSubmitResolved(PageCur))
  /\ PageDid("resolved", Len(pageSockets) + 1, NoFrame)
  /\ UNCHANGED <<pageMounted, submits>>
  /\ UNCHANGED hookAndChannel
  /\ UNCHANGED viewerVars

\* The reclassify request fails.
SubmitRejected ==
  /\ reclassify = "pending"
  /\ PageApply(handleSubmitRejected(PageCur))
  /\ PageDid("rejected", 0, NoFrame)
  /\ UNCHANGED <<pageMounted, submits>>
  /\ UNCHANGED hookAndChannel
  /\ UNCHANGED viewerVars

ReclassifyOnOpen(s) ==
  /\ pageSockets[s].state = "connecting"
  /\ PageApply(reclassifyOnOpen(PageCur, s))
  /\ PageDid("onopen", s, NoFrame)
  /\ UNCHANGED <<pageMounted, submits>>
  /\ UNCHANGED hookAndChannel
  /\ UNCHANGED viewerVars

ReclassifyOnMessage(s, f) ==
  /\ pageSockets[s].state = "open"
  /\ PageApply(reclassifyOnMessage(PageCur, s, f))
  /\ PageDid("onmessage", s, f)
  /\ pdfVersion' = IF f.status = "completed" THEN pdfVersion + 1
                   ELSE pdfVersion
  /\ mergedPdfFetching' = (mergedPdfFetching
                             \/ Count(pageOut', "refetch", "mergedPdf") > 0)
  /\ UNCHANGED <<pdfUrl, effectUrl, effectCleanup, blobUrlRef, blobUrl,
                 pdfFetches, fetchError>>
  /\ UNCHANGED <<pageMounted, submits>>
  /\ UNCHANGED hookAndChannel

ReclassifyOnError(s) ==
  /\ pageSockets[s].state \in {"connecting", "open"}
  /\ PageApply(reclassifyOnError(PageCur, s))
  /\ PageDid("onerror", s, NoFrame)
  /\ UNCHANGED <<pageMounted, submits>>
  /\ UNCHANGED hookAndChannel
  /\ UNCHANGED viewerVars

ReclassifyOnClose(s) ==
  /\ pageSockets[s].state \in {"connecting", "open", "closing"}
  /\ PageApply(reclassifyOnClose(PageCur, s))
  /\ PageDid("onclose", s, NoFrame)
  /\ UNCHANGED <<pageMounted, submits>>
  /\ UNCHANGED hookAndChannel
  /\ UNCHANGED viewerVars

\* The user leaves the details page.
PageUnmount ==
  /\ pageMounted
  /\ pageMounted' = FALSE
  /\ PageApply(pageUnmount(PageCur))
  /\ PageDid("unmount", 0, NoFrame)
  /\ UNCHANGED submits
  /\ UNCHANGED hookAndChannel
  /\ blobUrlRef' = viewerCleanup(blobUrlRef, effectCleanup)
  /\ effectCleanup' = FALSE
  /\ UNCHANGED <<pdfVersion, mergedPdfFetching, pdfUrl, effectUrl, blobUrl,
                 pdfFetches, fetchError>>

\* ------------------------------------------- merged-document viewer actions
\* The merged-PDF info arrives (first load or refetch) and the page passes its
\* preview_url to the viewer.
MergedPdfLoaded(u) ==
  /\ pageMounted
  /\ mergedPdfFetching
  /\ mergedPdfFetching' = FALSE
  /\ pdfUrl' = u
  /\ UNCHANGED <<pdfVersion, effectUrl, effectCleanup, blobUrlRef, blobUrl,
                 pdfFetches, fetchError>>
  /\ UNCHANGED pageVars
  /\ UNCHANGED hookAndChannel

\* pdfUrl differs from the one the effect last ran with: the previous cleanup
\* runs, then the effect.
ViewerEffect ==
  /\ pageMounted
  /\ pdfUrl # effectUrl
  /\ effectUrl' = pdfUrl
  /\ LET ref == viewerCleanup(blobUrlRef, effectCleanup) IN
       /\ blobUrlRef' = ref
       /\ effectCleanup' = viewerFetches(pdfUrl, ref)
       /\ pdfFetches' = IF viewerFetches(pdfUrl, ref) THEN pdfFetches + 1
                        ELSE pdfFetches
       /\ fetchError' = IF viewerFetches(pdfUrl, ref) THEN FALSE
                        ELSE fetchError
  /\ UNCHANGED <<pdfVersion, mergedPdfFetching, pdfUrl, blobUrl>>
  /\ UNCHANGED pageVars
  /\ UNCHANGED hookAndChannel

\* A fetch of the bytes succeeds: the blob holds the PDF the server has now.
PdfFetched ==
  /\ pdfFetches > 0
  /\ pdfFetches' = pdfFetches - 1
  /\ blobUrlRef' = pdfVersion
  /\ blobUrl' = pdfVersion
  /\ UNCHANGED <<pdfVersion, mergedPdfFetching, pdfUrl, effectUrl,
                 effectCleanup, fetchError>>
  /\ UNCHANGED pageVars
  /\ UNCHANGED hookAndChannel

\* A fetch of the bytes fails.
PdfFetchFailed ==
  /\ pdfFetches > 0
  /\ pdfFetches' = pdfFetches - 1
  /\ fetchError' = TRUE
  /\ UNCHANGED <<pdfVersion, mergedPdfFetching, pdfUrl, effectUrl,
                 effectCleanup, blobUrlRef, blobUrl>>
  /\ UNCHANGED pageVars
  /\ UNCHANGED hookAndChannel

PageNext ==
  \/ OpenReviewModal
  \/ CloseReviewModal
  \/ \E t \in Feedbacks : TypeFeedback(t)
  \/ Submit
  \/ SubmitResolved
  \/ SubmitRejected
  \/ \E s \in DOMAIN pageSockets : ReclassifyOnOpen(s)
  \/ \E s \in DOMAIN pageSockets : \E f \in Frames : ReclassifyOnMessage(s, f)
  \/ \E s \in DOMAIN pageSockets : ReclassifyOnError(s)
  \/ \E s \in DOMAIN pageSockets : ReclassifyOnClose(s)
  \/ PageUnmount
  \/ \E u \in PreviewUrls : MergedPdfLoaded(u)
  \/ ViewerEffect
  \/ PdfFetched
  \/ PdfFetchFailed

\* ========================================================= progress channel
\* The channel endpoint /ws/{project_id}: the client builds the URL
\* (createProcessingSocket, lib/socket.ts); the server keeps a registry of
\* sessions keyed by the project id parsed from the connection path and fans
\* published events out to the sessions registered for their project.

\* ------------------------------------------------------------------ bounds
MaxSessions == 2
MaxPublished == 2

Projects == {1, 2}

\* Text is a sequence of tokens.  VITE_API_BASE_URL values:
BaseUrls ==
  {<<"http", "://", "localhost:8000">>,
   <<"https", "://", "api.example.com">>,
   <<"http", "://", "localhost:8000", "/">>,
   <<"https", "://", "api.example.com", "/", "/">>,
   <<"undefined">>}

\* An unset variable: undefined, which a template literal renders as the text
\* "undefined".
Unset == <<"undefined">>

\* .replace(/^https?:\/\//, "")
stripScheme(u) ==
  IF Len(u) >= 2 /\ u[1] \in {"http", "https"} /\ u[2] = "://"
    THEN SubSeq(u, 3, Len(u))
    ELSE u

\* .replace(/\/$/, "")
stripSlash(u) ==
  IF u # <<>> /\ u[Len(u)] = "/" THEN SubSeq(u, 1, Len(u) - 1) ELSE u

\* createProcessingSocket that always opens the channel of project 1.
createProcessingSocket_OneChannel(env, projectId) ==
  LET baseUrl == IF env = Unset THEN Unset ELSE stripSlash(stripScheme(env))
      protocol == IF env # Unset /\ env # <<>> /\ env[1] = "https"
                    THEN "wss" ELSE "ws"
  IN <<protocol, "://">> \o baseUrl \o <<"/ws/", 1>>

\* The URL createProcessingSocket(projectId) opens, env being the build's
\* VITE_API_BASE_URL.
createProcessingSocket(env, projectId) ==
  LET baseUrl == IF env = Unset THEN Unset ELSE stripSlash(stripScheme(env))
      protocol == IF env # Unset /\ env # <<>> /\ env[1] = "https"
                    THEN "wss" ELSE "ws"
  IN <<protocol, "://">> \o baseUrl \o <<"/ws/", projectId>>

\* .replace(/\/+$/, "")
RECURSIVE stripSlashes(_)
stripSlashes(u) ==
  IF u # <<>> /\ u[Len(u)] = "/"
    THEN stripSlashes(SubSeq(u, 1, Len(u) - 1))
    ELSE u

\* The base URL of the HTTP client (api/axios-instance.ts).
baseURL(env) ==
  stripSlashes(IF env = Unset THEN <<"http", "://", "localhost:8000">> ELSE env)

\* The host (with port) of a URL: what follows the scheme.
UrlHost(url) == url[3]

\* The path of a URL: what follows scheme and host.
UrlPath(url) == SubSeq(url, 4, Len(url))

\* The project id the server parses from a connection path /ws/{project_id}.
PathProject(path) ==
  IF Len(path) = 2 /\ path[1] = "/ws/" /\ path[2] \in Projects
    THEN path[2]
    ELSE 0

Statuses == {"processing", "completed", "error"}

\* connect(project_id) -> session
connect(reg, project_id, session) ==
  [reg EXCEPT ![project_id] = @ \cup {session}]

\* publish(project_id, event): the sessions of the project that still receive
\* get the event, the others are pruned.
publishDeliver(sess, reg, project_id, event) ==
  [i \in DOMAIN sess |->
     IF i \in reg[project_id] /\ sess[i].live
       THEN [sess[i] EXCEPT !.inbox = Append(@, event)]
       ELSE sess[i]]

publishPrune(sess, reg, project_id) ==
  [reg EXCEPT ![project_id] = {i \in @ : sess[i].live}]

\* disconnect(session)
disconnect(reg, session) == [p \in DOMAIN reg |-> reg[p] \ {session}]

\* ------------------------------------------------------------------ actions
ChanInit ==
  /\ chanEnv \in BaseUrls
  /\ chanSessions = <<>>
  /\ registry = [p \in Projects |-> {}]
  /\ published = 0
  /\ chanAct = "start"

\* A client whose projectId is p opens its socket; the server accepts the
\* connection and registers the session under the project id of the path.
ChanConnect(p) ==
  /\ Len(chanSessions) < MaxSessions
  /\ LET url == createProcessingSocket(chanEnv, p)
         project == PathProject(UrlPath(url))
         session == Len(chanSessions) + 1
     IN /\ UrlHost(url) = UrlHost(baseURL(chanEnv))
        /\ project # 0
        /\ chanSessions' = Append(chanSessions,
                                  [client |-> p, url |-> url,
                                   project |-> project, live |-> TRUE,
                                   inbox |-> <<>>])
        /\ registry' = connect(registry, project, session)
        /\ chanAct' = "connect"
  /\ UNCHANGED <<chanEnv, published>>
  /\ UNCHANGED hookAndPage

\* The background task of project p reports its status.
ChanPublish(p, status) ==
  /\ published < MaxPublished
  /\ published' = published + 1
  /\ chanSessions' = publishDeliver(chanSessions, registry, p,
                                    [project_id |-> p, status |-> status])
  /\ registry' = publishPrune(chanSessions, registry, p)
  /\ chanAct' = "publish"
  /\ UNCHANGED chanEnv
  /\ UNCHANGED hookAndPage

\* The client closes its socket, or the connection is lost.
ChanClientClose(i) ==
  /\ chanSessions[i].live
  /\ chanSessions' = [chanSessions EXCEPT ![i].live = FALSE]
  /\ chanAct' = "close"
  /\ UNCHANGED <<chanEnv, registry, published>>
  /\ UNCHANGED hookAndPage

\* The server notices the disconnection of a session (also of one that was
\* pruned or removed before).
ChanDisconnect(i) ==
  /\ ~chanSessions[i].live
  /\ registry' = disconnect(registry, i)
  /\ chanAct' = "disconnect"
  /\ UNCHANGED <<chanEnv, chanSessions, published>>
  /\ UNCHANGED hookAndPage

ChanNext ==
  \/ \E p \in Projects : ChanConnect(p)
  \/ \E p \in Projects : \E status \in Statuses : ChanPublish(p, status)
  \/ \E i \in DOMAIN chanSessions : ChanClientClose(i)
  \/ \E i \in DOMAIN chanSessions : ChanDisconnect(i)

\* ----------------------------------------------------------- specifications
allVars == <<vars, pageVars, viewerVars, chanVars>>

\* The build of a local development setup.
DevBuild == chanEnv = <<"http", "://", "localhost:8000">>

\* Everything as constructed, in a development build.
InitDev == Init /\ PageInit /\ ViewerInit /\ ChanInit /\ DevBuild

\* Everything as constructed, in any build.
InitAny == Init /\ PageInit /\ ViewerInit /\ ChanInit

\* The processing hook.
Spec == InitDev /\ [][Next]_allVars

\* The details page.
SpecDetails == InitDev /\ [][PageNext]_allVars

\* The progress channel, for every build.
SpecChannel == InitAny /\ [][ChanNext]_allVars

\* ------------------------------------------------------------------- claims
\* C1: the HTTP trigger is only ever issued by the open handler of a socket,
\* after that socket has reported open; startProcessing and the close handler
\* issue none.
C1_TriggerAfterOpen ==
  /\ \A s \in DOMAIN sockets : sockets[s].triggered => sockets[s].opened
  /\ \A i \in DOMAIN out :
       out[i].o = "trigger" =>
         /\ act.h = "onopen"
         /\ out[i].n = act.s
         /\ sockets[act.s].state = "open"
         /\ \E j \in 1..(i - 1) : out[j].kind = "info"

C1_Witness ==
  /\ act.h = "onopen"
  /\ Emitted(out, "trigger")
  /\ mutation = "pending"

\* C2: after maxRetries consecutive unexpected closures with no open in
\* between, the client is in Terminal(Error): the failure is recorded,
\* isProcessing is false, and no connection is pending, live or scheduled.
C2_BoundedRetry ==
  consec >= maxRetries =>
    /\ terminal \in {"exhausted", "error", "triggerFailed"}
    /\ ~isProcessing
    /\ timers = 0
    /\ Live(sockets) = {}

\* C3: when the socket opened by startProcessing closes unexpectedly while the
\* attempt is processing and retryCount < maxRetries, the close handler
\* increments retryCount, emits the retrying notification with
\* retryCount/maxRetries and schedules exactly one reconnection; a completed
\* event then ends the attempt as completed with retryCount 0.
C3_RetryOnDrop ==
  [][/\ (/\ act'.h = "onclose"
         /\ act'.s = startSock
         /\ sockets[act'.s].state \in {"connecting", "open"}
         /\ isProcessing
         /\ terminal = "none"
         /\ retryCount < maxRetries)
        => /\ retryCount' = retryCount + 1
           /\ timers' = timers + 1
           /\ Count(out', "toast", "warning") = 1
           /\ \A i \in DOMAIN out' :
                out'[i].kind = "warning" => out'[i].n = retryCount'
           /\ Count(out', "setTimeout", "reconnect") = 1
     /\ (act'.h = "onmessage" /\ act'.f.status = "completed")
        => (terminal' = "completed" /\ retryCount' = 0)]_vars

\* C4: while isProcessing is true there is always a connecting or open socket,
\* or a reconnection timer pending.
C4_NeverStuck == isProcessing => (Live(sockets) # {} \/ timers > 0)

\* C5: once the attempt is terminal, no reconnection is scheduled, no socket
\* is created and no trigger is issued until startProcessing is called again.
C5_NoReconnectAfterTerminal ==
  [][(terminal # "none" /\ terminal' # "none")
       => /\ Len(sockets') = Len(sockets)
          /\ timers' <= timers
          /\ ~Emitted(out', "trigger")
          /\ ~Emitted(out', "setTimeout")]_vars

\* C6: a completed event received on the socket the client holds closes that
\* socket, sets socketRef to null, retryCount to 0 and isProcessing to false,
\* and emits exactly one success notification and one navigation.
C6_Completed ==
  [][(act'.h = "onmessage" /\ act'.f.status = "completed")
       => /\ socketRef' = 0
          /\ retryCount' = 0
          /\ ~isProcessing'
          /\ (socketRef # 0 =>
                sockets'[socketRef].state \in {"closing", "closed"})
          /\ (socketRef = act'.s => sockets'[act'.s].state = "closing")
          /\ (socketRef # 0 <=> Count(out', "close", "") = 1)
          /\ Count(out', "toast", "success") = 1
          /\ Count(out', "navigate", "details") = 1
          /\ Count(out', "toast", "error") = 0]_vars

C6_Witness ==
  /\ act.h = "onmessage"
  /\ act.f.status = "completed"
  /\ sockets[act.s].state = "closing"
  /\ Emitted(out, "navigate")

\* C7 (as claimed): after the happy path the client is completed with
\* progress equal to 100.
C7_HappyPathProgress100 ==
  scenario = "done" => (terminal = "completed" /\ progress = 100)

\* C7 (amended): after the happy path the client is completed, isProcessing is
\* false and progress has been reset to 0 by cleanup; the 100 appears only in
\* the success notification's event.
C7_HappyPathReset ==
  scenario = "done" =>
    /\ terminal = "completed"
    /\ ~isProcessing
    /\ progress = 0
    /\ socketRef = 0
    /\ act.h = "onmessage" =>
         (act.f.progress = 100 /\ Count(out, "toast", "success") = 1)

C7_Witness == scenario = "done" /\ act.h = "onmessage"

\* C8: after an error event the socket is closed, the failure notification
\* carries the event's message, isProcessing is false, and nothing retries:
\* no socket is created, no reconnection scheduled and no trigger issued until
\* startProcessing is called again.
C8_ErrorNoRetry ==
  [][/\ (act'.h = "onmessage" /\ act'.f.status = "error")
        => /\ ~isProcessing'
           /\ socketRef' = 0
           /\ (socketRef # 0 =>
                sockets'[socketRef].state \in {"closing", "closed"})
           /\ \E i \in DOMAIN out' :
                out'[i].kind = "error" /\ out'[i].text = act'.f.message
     /\ (terminal = "error" /\ terminal' = "error")
        => /\ Len(sockets') = Len(sockets)
           /\ timers' <= timers
           /\ ~Emitted(out', "trigger")]_vars

\* C9: when the HTTP trigger fails the socket is closed, isProcessing becomes
\* false, a failure notification is emitted, and the close event that follows
\* schedules no reconnection and shows no retry notification.
C9_TriggerFailure ==
  [][/\ act'.h = "onError"
        => /\ ~isProcessing'
           /\ socketRef' = 0
           /\ (socketRef # 0 =>
                sockets'[socketRef].state \in {"closing", "closed"})
           /\ Count(out', "toast", "error") = 1
     /\ (/\ terminal = "triggerFailed"
         /\ act'.h = "onclose"
         /\ sockets[act'.s].state = "closing")
        => /\ timers' = timers
           /\ Count(out', "toast", "warning") = 0
           /\ ~Emitted(out', "setTimeout")]_vars

\* C10: a frame that is not JSON changes nothing but the log, and a completed
\* event handled afterwards has the same result as without that frame.
C10_MalformedFrame ==
  [][(act'.h = "onmessage" /\ act'.f = NonJson)
       => /\ UNCHANGED <<isProcessing, progress, retryCount, socketRef,
                         sockets, timers, mutation, terminal>>
          /\ \A i \in DOMAIN out' : out'[i].o = "log"
          /\ \A f \in Frames :
               f.status = "completed" =>
                 handleMessage(Cur', f) = handleMessage(Cur, f)]_vars

C10_Witness ==
  /\ act.h = "onmessage"
  /\ act.f = NonJson
  /\ isProcessing
  /\ sockets[act.s].state = "open"
  /\ progress = 60

\* C11: unmounting the component while an attempt is in progress closes the
\* active socket at once and returns the client to Idle; after the unmount no
\* socket is created, no reconnection is scheduled, and no event leads to a
\* notification or a navigation.
C11_Cancellation ==
  [][/\ (act'.h = "unmount" /\ isProcessing)
        => /\ Live(sockets') = {}
           /\ ~isProcessing'
           /\ socketRef' = 0
     /\ (~mounted /\ ~mounted')
        => /\ Len(sockets') = Len(sockets)
           /\ timers' <= timers
           /\ ~Emitted(out', "toast")
           /\ ~Emitted(out', "navigate")
           /\ ~Emitted(out', "trigger")]_vars
\* C12: at most one socket created by the hook is connecting or open, and
\* whenever connectSocket creates a socket no earlier socket is still
\* connecting or open and the handle does not refer to one.
C12_SingleLiveSocket ==
  [][/\ Cardinality(Live(sockets')) <= 1
     /\ Len(sockets') > Len(sockets)
        => /\ Live(sockets) = {}
           /\ socketRef \notin Live(sockets)]_vars
\* C14 (as claimed): an event that arrives on the open socket while the
\* trigger response is still pending does not change isProcessing or
\* progress, does not close the socket and does not navigate.
C14_InterpretAfterAccept ==
  [][(act'.h = "onmessage" /\ mutation = "pending")
       => /\ isProcessing' = isProcessing
          /\ progress' = progress
          /\ ~Emitted(out', "close")
          /\ ~Emitted(out', "navigate")]_vars

\* C14 (amended): events are interpreted as soon as the socket is open, also
\* while the trigger response is pending: a processing event sets progress, a
\* completed or error event resets the client and discards the handle, a
\* completed event navigates; the trigger stays pending.
C14_InterpretWhenOpen ==
  [][(act'.h = "onmessage" /\ mutation = "pending")
       => /\ mutation' = "pending"
          /\ act'.f.status = "processing"
             => /\ progress' = act'.f.progress
                /\ isProcessing' = isProcessing
                /\ Count(out', "toast", "loading") = 1
          /\ act'.f.status \in {"completed", "error"}
             => /\ ~isProcessing'
                /\ progress' = 0
                /\ socketRef' = 0
                /\ (socketRef # 0 => Count(out', "close", "") = 1)
          /\ act'.f.status = "completed"
             => Count(out', "navigate", "details") = 1
          /\ act'.f.status = "error"
             => Count(out', "toast", "error") = 1]_vars

C14_Witness ==
  /\ act.h = "onmessage"
  /\ act.f.status = "completed"
  /\ mutation = "pending"
  /\ sockets[act.s].triggered
  /\ sockets[act.s].state = "closing"
  /\ Emitted(out, "navigate")

\* C15: whenever a socket's open handler has run, for a first connection or
\* for a reconnection, retryCount is 0.
C15_OpenResetsRetryCount == act.h = "onopen" => retryCount = 0

C15_Witness ==
  /\ act.h = "onopen"
  /\ act.s # startSock
  /\ sockets[act.s].cap
  /\ isProcessing
  /\ retryCount = 0

\* C16: retryCount is always between 0 and maxRetries, and the retrying
\* notification reports an attempt number between 1 and maxRetries.
C16_RetryCountBounded ==
  /\ retryCount \in 0..maxRetries
  /\ \A i \in DOMAIN out :
       out[i].kind = "warning" => out[i].n \in 1..maxRetries

C16_Witness ==
  /\ act.h = "onclose"
  /\ retryCount = maxRetries
  /\ \E i \in DOMAIN out : out[i].kind = "warning" /\ out[i].n = maxRetries
\* C17: a close that occurs with retryCount >= maxRetries emits exactly one
\* failure notification and leaves the client Idle: isProcessing false,
\* progress 0, retryCount 0, the handle null and no reconnection timer pending.
C17_Exhausted ==
  [][(act'.h = "onclose" /\ retryCount >= maxRetries)
       => /\ Count(out', "toast", "error") = 1
          /\ ~isProcessing'
          /\ progress' = 0
          /\ retryCount' = 0
          /\ socketRef' = 0
          /\ timers' = 0]_vars
\* C19: in every reachable state a second cleanup() right after a first one
\* changes nothing and emits nothing: the state after two calls equals the
\* state after one, close() is called at most once over both calls, and no
\* notification is emitted by either.
C19_IdempotentCleanup ==
  LET once == cleanup(Cur)
      twice == cleanup(once)
  IN /\ twice = once
     /\ cleanup([once EXCEPT !.out = <<>>]).out = <<>>
     /\ Count(twice.out, "close", "") <= 1
     /\ ~Emitted(twice.out, "toast")
     /\ once.socketRef = 0
     /\ Live(once.sockets) \subseteq Live(sockets) \ {socketRef}

\* cleanup has run twice in a row on the same attempt: the trigger failed
\* after an event had already ended the attempt.
C19_Witness ==
  /\ act.h = "onError"
  /\ terminal = "triggerFailed"
  /\ ~Emitted(out, "close")
  /\ \E s \in DOMAIN sockets : sockets[s].state = "closing"
  /\ socketRef = 0
  /\ ~isProcessing
\* C13: the reclassify request is only issued while a progress socket of the
\* page has reported open, so that no event of the job can be missed.
C13_ReclassifyTriggerAfterOpen ==
  \A i \in DOMAIN pageOut :
    pageOut[i].o = "trigger" =>
      \E s \in DOMAIN pageSockets : pageSockets[s].state = "open"

\* C18: every session is registered under the project id of the client that
\* opened it, the URL the client opens has the path /ws/{projectId} of its own
\* projectId, and a session only ever receives events published for its
\* project.
C18_ProjectIsolation ==
  \A i \in DOMAIN chanSessions :
    /\ UrlPath(chanSessions[i].url) = <<"/ws/", chanSessions[i].client>>
    /\ chanSessions[i].project = chanSessions[i].client
    /\ \A k \in DOMAIN chanSessions[i].inbox :
         chanSessions[i].inbox[k].project_id = chanSessions[i].client

\* Sessions of two projects are registered and live, an event has been
\* published for one of them, and only that one has received it.
C18_Witness ==
  /\ chanAct = "publish"
  /\ \E i, j \in DOMAIN chanSessions :
       /\ chanSessions[i].client # chanSessions[j].client
       /\ chanSessions[i].live /\ chanSessions[j].live
       /\ i \in registry[chanSessions[i].client]
       /\ j \in registry[chanSessions[j].client]
       /\ chanSessions[i].inbox # <<>>
       /\ chanSessions[j].inbox = <<>>

\* C20: when the reclassify request fails, no socket is opened, isReclassifying
\* is and stays false, the modal and the entered feedback are left as they
\* were, and exactly one error notification is emitted; handleSubmit called
\* with feedback that is empty after trimming sends no request, changes
\* nothing and emits one error notification.
C20_TriggerRejection ==
  [][/\ pageAct'.h = "rejected"
        => /\ pageSockets' = pageSockets
           /\ pageSocketRef' = pageSocketRef
           /\ ~isReclassifying /\ ~isReclassifying'
           /\ reclassifyStatus' = reclassifyStatus
           /\ isReviewModalOpen' = isReviewModalOpen
           /\ feedback' = feedback
           /\ pageOut' = <<Emit("toast", "error",
                                "Failed to submit feedback", 0)>>
     /\ \A t \in Feedbacks :
          trim(t) = <<>> =>
            LET d == [PageCur EXCEPT !.feedback = t] IN
            handleSubmit(d)
              = Say(d, Emit("toast", "error", "Please enter feedback", 0))]_pageVars

C20_Witness ==
  /\ pageAct.h = "rejected"
  /\ isReviewModalOpen
  /\ trim(feedback) # <<>>
  /\ pageSockets = <<>>
  /\ ~isReclassifying
  /\ Count(pageOut, "toast", "error") = 1
\* C21: a completed event on the reclassification socket refetches the grouped
\* classifications and the merged-PDF info once each, hides the overlay
\* (isReclassifying false, status text cleared) and closes the socket; an error
\* event hides the overlay, reports the event's message and closes the socket
\* without refetching.
C21_ReclassifyTerminal ==
  [][/\ (pageAct'.h = "onmessage" /\ pageAct'.f.status = "completed")
        => /\ Count(pageOut', "refetch", "grouped") = 1
           /\ Count(pageOut', "refetch", "mergedPdf") = 1
           /\ ~isReclassifying'
           /\ reclassifyStatus' = NoStatus
           /\ pageSockets'[pageAct'.s].state = "closing"
           /\ Count(pageOut', "toast", "success") = 1
           /\ Count(pageOut', "toast", "error") = 0
     /\ (pageAct'.h = "onmessage" /\ pageAct'.f.status = "error")
        => /\ ~Emitted(pageOut', "refetch")
           /\ ~isReclassifying'
           /\ reclassifyStatus' = NoStatus
           /\ pageSockets'[pageAct'.s].state = "closing"
           /\ Count(pageOut', "toast", "error") = 1
           /\ \E i \in DOMAIN pageOut' :
                pageOut'[i].kind = "error"
                  /\ pageOut'[i].text = pageAct'.f.message]_pageVars

C21_Witness ==
  /\ pageAct.h = "onmessage"
  /\ pageAct.f.status = "completed"
  /\ Emitted(pageOut, "refetch")
  /\ pageSockets[pageAct.s].state = "closing"
  /\ ~isReclassifying
\* C22: for every base-URL configuration, the URL createProcessingSocket opens
\* has scheme wss when the HTTP client's base URL is https and ws otherwise,
\* the host and port of the HTTP client's base URL, and path /ws/{projectId}.
C22_ChannelUrl ==
  \A p \in Projects :
    LET url == createProcessingSocket(chanEnv, p)
        http == baseURL(chanEnv)
    IN /\ url[1] = (IF http[1] = "https" THEN "wss" ELSE "ws")
       /\ url[2] = "://"
       /\ UrlHost(url) = UrlHost(http)
       /\ UrlPath(url) = <<"/ws/", p>>
\* C23: a processing event changes only progress, set to the event's progress,
\* and shows the progress notification; isProcessing, retryCount, the handle,
\* the sockets, the timers and the trigger are left alone, and nothing else is
\* emitted.
C23_ProcessingFrame ==
  /\ \A f \in Frames :
       f.status = "processing" =>
         handleMessage(Cur, f)
           = Say([Cur EXCEPT !.progress = f.progress],
                 Emit("toast", "loading", f.message, f.progress))
  /\ (act.h = "onmessage" /\ act.f.status = "processing")
       => /\ progress = act.f.progress
          /\ sockets[act.s].state = "open"
          /\ out = <<Emit("toast", "loading", act.f.message, act.f.progress)>>

C23_Witness ==
  /\ act.h = "onmessage"
  /\ act.f.status = "processing"
  /\ progress = 60
  /\ isProcessing
  /\ retryCount > 0
  /\ socketRef = act.s
\* C24: once a reclassification has completed, the merged-PDF info has been
\* refetched and the viewer has settled, the document the viewer displays is
\* the PDF the server holds, whatever preview_url the refetch returned.
C24_ViewerShowsRegenerated ==
  (/\ pageMounted
   /\ pdfVersion > 1
   /\ ~mergedPdfFetching
   /\ pdfFetches = 0
   /\ effectUrl = pdfUrl
   /\ pdfUrl # NoUrl
   /\ ~fetchError)
    => blobUrl = pdfVersion

\* C27: on the details page the blocking overlay is shown only while a
\* reclassification socket is connecting or open: whenever isReclassifying is
\* true on the mounted page, some socket of the page is live.  (Only the
\* onmessage of an open socket sets isReclassifying to false, and the overlay
\* covers every control, so a state violating this is never left.)
C27_OverlayHasLiveSocket ==
  (pageMounted /\ isReclassifying)
    => \E s \in DOMAIN pageSockets :
         pageSockets[s].state \in {"connecting", "open"}

\* C28: while the most recently opened reclassification socket is connecting
\* or open, socketRef refers to it, so that the unmount cleanup closes it.
C28_RefIsNewestLiveSocket ==
  (/\ pageMounted
   /\ pageSockets # <<>>
   /\ pageSockets[Len(pageSockets)].state \in {"connecting", "open"})
    => pageSocketRef = Len(pageSockets)

\* C29: once the attempt has ended by a completed or error event (and no new
\* attempt was started), no handler emits the in-progress notification
\* "Processing started...", so the terminal notification stays the last one
\* shown under the attempt's process id.
C29_NoStartedAfterTerminal ==
  terminal \in {"completed", "error"}
    => ~\E i \in DOMAIN out :
          out[i] = Emit("toast", "loading", "Processing started...", 0)

\* C25: within one processing attempt (since the last effective
\* startProcessing call) the process-project HTTP trigger is issued at most
\* once, however often the socket is closed and reopened.
C25_OneTriggerPerAttempt == triggers <= 1

\* C26: while an attempt is in progress (isProcessing true) a startProcessing
\* call is a no-op: it emits nothing (no socket opened, no trigger) and leaves
\* isProcessing, progress, retryCount, the socket handle, the sockets, the
\* timers and the mutation as they are.
C26_BusyStartIsNoOp ==
  /\ isProcessing
       => startProcessingClick(Cur, rendIsProcessing, refIsProcessing) = Cur
  /\ act.h = "startProcessingBusy" => out = <<>>

\* Two calls in a row: the first created a socket, which opened and issued the
\* trigger; the second changed nothing.
C26_Witness ==
  /\ act.h = "startProcessingBusy"
  /\ isProcessing
  /\ Len(sockets) = 1
  /\ sockets[1].state = "open"
  /\ triggers = 1

====
